---- MODULE Spec2Model ----
(***************************************************************************)
(* DOWNLOAD_IMAGES.py: a sequential fetch / decode / normalise / encode    *)
(* loop over the fixed IMAGES list, with a skip-if-exists check per item   *)
(* and one try/except around the per-item work.                            *)
(*                                                                         *)
(* The output directory is the only persistent state: fs maps every item   *)
(* (its output path {OUTPUT_DIR}/{photo_id}.webp) to the file found there. *)
(* The network, the decoder and the disk are the environment: every call   *)
(* inside the try block may raise, and os.makedirs may raise.  The code    *)
(* outside the try block reads sizes only of files it has just seen to     *)
(* exist; the directory is changed by this program alone.                  *)
(***************************************************************************)
EXTENDS Integers, Sequences, FiniteSets, TLC

\* IMAGES, lines 24-54: one entry per photo_id (all 29 identifiers are
\* distinct); an item is its position in the list, the entry is its width.
IMAGES ==
    << 1920, 1920, 1920, 1920, 1920, 1920, 1920, 1920, 1920, 1200,
       1200, 1200, 1200, 1200, 1200, 1200, 1200, 1200,  800, 1920,
       1200, 1200, 1200, 1200, 1200, 1200, 1200, 1920, 1920 >>

Items == 1..Len(IMAGES)

\* Bounds of the exploration.
MaxRuns == 2
MaxFlaky == 2
MaxSize == 2

\* The items for which the environment may misbehave (a file already there
\* before the first run, a failing fetch, any payload, a failing step): the
\* first item of the list, then every 14th (1, 15, 29).  For every other item
\* the directory starts without its file and every step succeeds.
FlakyItems == { k \in Items : (k - 1) % 14 = 0 /\ (k - 1) \div 14 < MaxFlaky }

VARIABLES
    pc,             \* position of the process
    run,            \* number of the current run of main()
    dir,            \* OUTPUT_DIR: "missing", "present" or "blocked"
    fs,             \* fs[p]: the file at output path p
    i,              \* loop index of main() (0 before the first item)
    success_count,  \* main(): success_count
    total_size,     \* main(): total_size
    request,        \* the URL of the GET in flight: <<item, width>>
    response,       \* the response of requests.get
    img,            \* download_and_optimize: img
    ret,            \* return value of the last download_and_optimize call
    summary,        \* what the summary block of main() printed
    exit,           \* exit status of the process (-1 while running)
    \* history variables
    src,            \* the image as decoded, before normalisation
    status,         \* outcome of the GET of the current call
    inflight,       \* number of GETs sent and not yet answered
    gets,           \* gets[k]: GETs issued for item k in this run
    calls,          \* items handed to download_and_optimize in this run
    results,        \* results[k]: how the call for item k ended in this run
    fsAtCall,       \* the directory when the current call began
    work,           \* steps the current call has performed
    startEmpty      \* the directory held no file when this run began

vars == << pc, run, dir, fs, i, success_count, total_size, request, response,
           img, ret, summary, exit, src, status, inflight, gets, calls,
           results, fsAtCall, work, startEmpty >>

----------------------------------------------------------------------------
\* Files

Absent == [kind |-> "absent", mode |-> "none", size |-> 0]

\* A file left behind by a write that did not complete.
Partial == [kind |-> "partial", mode |-> "none", size |-> 0]

WebP(mode, size) == [kind |-> "webp", mode |-> mode, size |-> size]

Sizes == 1..MaxSize

\* What may lie at an output path before the first run.
PreFiles ==
    {Absent, Partial} \cup { WebP(m, s) : m \in {"RGB", "RGBA"}, s \in Sizes }

None == [mode |-> "none", v |-> 0, a |-> 0]

NoResponse == [status |-> "none", body |-> "none", image |-> None]

NoSummary == [succeeded |-> -1, total |-> -1, size |-> -1, msg |-> "none", failed |-> -1]

----------------------------------------------------------------------------
\* Images: one pixel of colour v (a grey level) and alpha a, in a Pillow mode.

Modes == {"L", "LA", "P", "PA", "RGB", "RGBA", "CMYK"}

\* Modes whose pixels carry an alpha value.  A "P" image carries one through
\* its palette transparency.
AlphaModes == {"LA", "PA", "RGBA", "P"}

Levels == {0, 100, 255}

Alphas == {0, 128, 255}

SourceImages ==
    { [mode |-> m, v |-> v, a |-> a] : m \in AlphaModes, v \in Levels, a \in Alphas }
    \cup { [mode |-> m, v |-> v, a |-> 255] : m \in Modes \ AlphaModes, v \in Levels }

NominalImage == [mode |-> "RGB", v |-> 100, a |-> 255]

\* img.convert(mode): the same colours in another mode; a mode without
\* alpha drops the alpha channel.
Convert(im, mode) ==
    [mode |-> mode, v |-> im.v, a |-> IF mode \in AlphaModes THEN im.a ELSE 255]

\* background.paste(img, mask=alpha) on a white background, line 87-91.
PasteOnWhite(im) ==
    [mode |-> "RGB", v |-> (im.v * im.a + 255 * (255 - im.a) + 127) \div 255, a |-> 255]

\* Line 86: the modes that are composited onto white.
NeedsBackground(mode) == mode \in {"RGBA", "LA", "P"}

\* Lines 86-96.
Normalize(im) ==
    IF NeedsBackground(im.mode)
    THEN LET rgba == IF im.mode = "P" THEN Convert(im, "RGBA") ELSE im
         IN  IF rgba.mode \in {"RGBA", "LA"}
             THEN PasteOnWhite(rgba)
             ELSE [mode |-> "RGB", v |-> rgba.v, a |-> 255]
    ELSE IF im.mode # "RGB" THEN Convert(im, "RGB") ELSE im

\* img.save(output_path, 'WEBP', ...), lines 99-105: the file keeps the
\* image's channels (WebP stores RGB or RGBA).
Encode(im, size) ==
    WebP(IF im.mode \in AlphaModes THEN "RGBA" ELSE "RGB", size)

----------------------------------------------------------------------------
\* The environment

Responses(k) ==
    IF k \in FlakyItems
    THEN { [status |-> s, body |-> "image", image |-> im] :
             s \in {"200", "404"}, im \in SourceImages }
         \cup { [status |-> s, body |-> "corrupt", image |-> None] : s \in {"200", "404"} }
         \cup { [status |-> "timeout", body |-> "none", image |-> None] }
    ELSE { [status |-> "200", body |-> "image", image |-> NominalImage] }

EncodedSizes(k) == IF k \in FlakyItems THEN Sizes ELSE {1}

----------------------------------------------------------------------------
\* Helpers of the code

\* A variant of OutputPath in which every item shares one file name.
SharedPath(k) == 1

\* Line 63: the output path of item k.  Paths are keyed by photo_id, and the
\* identifiers are pairwise distinct.
OutputPath(k) == k

\* Line 62.
Url(k) == << k, IMAGES[k] >>

\* A variant of Exists in which the existence check never finds the file.
ExistsNever(f) == FALSE

\* os.path.exists, lines 65 and 136.
Exists(f) == f.kind # "absent"

\* os.path.getsize, lines 66, 107 and 137.
GetSize(f) == f.size

\* A variant of RaiseForStatus in which the status is never looked at.
RaiseNever(s) == FALSE

\* response.raise_for_status(), line 80.
RaiseForStatus(s) == s # "200"

\* A variant of NextIndex that steps over every other item.
SkipOne(n) == n + 2

\* enumerate(IMAGES, 1), line 131.
NextIndex(n) == n + 1

\* A variant of CountSuccess that counts nothing.
CountNothing(n) == n

\* Line 134.
CountSuccess(n) == n + 1

\* A variant of AddSize that counts files instead of bytes.
AddOne(total, f) == IF f.kind # "absent" THEN total + 1 ELSE total

\* Lines 136-137.
AddSize(total, f) == IF Exists(f) THEN total + GetSize(f) ELSE total

\* Lines 146-154.
Closing(n) ==
    IF n = Len(IMAGES)
    THEN [msg |-> "SUCCESS", failed |-> 0]
    ELSE [msg |-> "WARNING", failed |-> Len(IMAGES) - n]

----------------------------------------------------------------------------
Init ==
    /\ pc = "start"
    /\ run = 1
    /\ dir \in {"missing", "present", "blocked"}
    /\ \E pre \in [FlakyItems -> PreFiles] :
         fs = [p \in Items |->
                 IF p \in FlakyItems /\ dir = "present" THEN pre[p] ELSE Absent]
    /\ i = 0
    /\ success_count = 0
    /\ total_size = 0
    /\ request = << >>
    /\ response = NoResponse
    /\ img = None
    /\ ret = FALSE
    /\ summary = NoSummary
    /\ exit = -1
    /\ src = None
    /\ status = "none"
    /\ inflight = 0
    /\ gets = [k \in Items |-> 0]
    /\ calls = << >>
    /\ results = [k \in Items |-> "none"]
    /\ fsAtCall = fs
    /\ work = {}
    /\ startEmpty = (\A p \in Items : fs[p] = Absent)

\* Lines 114-116: the except clause; the call returns False.
Except(what) ==
    /\ ret' = FALSE
    /\ results' = [results EXCEPT ![i] = what]
    /\ pc' = "returned"

\* Lines 119-129: the banner, os.makedirs(OUTPUT_DIR, exist_ok=True) and the
\* two counters.  A path that cannot be created raises out of main().
Makedirs ==
    /\ pc = "start"
    /\ IF dir = "blocked"
       THEN /\ pc' = "crashed"
            /\ exit' = 1
            /\ UNCHANGED << dir >>
       ELSE /\ dir' = "present"
            /\ pc' = "loop"
            /\ UNCHANGED << exit >>
    /\ success_count' = 0
    /\ total_size' = 0
    /\ UNCHANGED << run, fs, i, request, response, img, ret, summary, src,
                    status, inflight, gets, calls, results, fsAtCall, work,
                    startEmpty >>

\* Lines 131-133: the for statement takes the next item and calls
\* download_and_optimize, or leaves the loop.
LoopNext ==
    /\ pc = "loop"
    /\ IF i < Len(IMAGES)
       THEN /\ i' = NextIndex(i)
            /\ pc' = "check"
            /\ calls' = Append(calls, i')
            /\ fsAtCall' = fs
            /\ work' = {}
            /\ status' = "none"
       ELSE /\ pc' = "summary"
            /\ UNCHANGED << i, calls, fsAtCall, work, status >>
    /\ UNCHANGED << run, dir, fs, success_count, total_size, request,
                    response, img, ret, summary, exit, src, inflight, gets,
                    results, startEmpty >>

\* Lines 62-68: the skip-if-exists check.
CheckExists ==
    /\ pc = "check"
    /\ IF Exists(fs[OutputPath(i)])
       THEN /\ ret' = TRUE
            /\ results' = [results EXCEPT ![i] = "skipped"]
            /\ pc' = "returned"
       ELSE /\ pc' = "send"
            /\ UNCHANGED << ret, results >>
    /\ UNCHANGED << run, dir, fs, i, success_count, total_size, request,
                    response, img, summary, exit, src, status, inflight,
                    gets, calls, fsAtCall, work, startEmpty >>

\* Line 79: requests.get sends the request and blocks.
SendGet ==
    /\ pc = "send"
    /\ request' = Url(i)
    /\ inflight' = inflight + 1
    /\ gets' = [gets EXCEPT ![i] = @ + 1]
    /\ work' = work \cup {"get"}
    /\ pc' = "await"
    /\ UNCHANGED << run, dir, fs, i, success_count, total_size, response,
                    img, ret, summary, exit, src, status, calls, results,
                    fsAtCall, startEmpty >>

\* Lines 79-80: requests.get returns or times out; raise_for_status.
Receive ==
    /\ pc = "await"
    /\ \E r \in Responses(request[1]) :
         /\ status' = r.status
         /\ IF r.status = "timeout"
            THEN /\ Except("fetch")
                 /\ UNCHANGED << response >>
            ELSE /\ response' = r
                 /\ IF RaiseForStatus(r.status)
                    THEN Except("fetch")
                    ELSE /\ pc' = "decode"
                         /\ UNCHANGED << ret, results >>
    /\ inflight' = inflight - 1
    /\ request' = << >>
    /\ UNCHANGED << run, dir, fs, i, success_count, total_size, img,
                    summary, exit, src, gets, calls, fsAtCall, work,
                    startEmpty >>

\* Line 83: Image.open(io.BytesIO(response.content)).
Decode ==
    /\ pc = "decode"
    /\ work' = work \cup {"decode"}
    /\ IF response.body = "image"
       THEN /\ img' = response.image
            /\ src' = response.image
            /\ pc' = "normalize"
            /\ UNCHANGED << ret, results >>
       ELSE /\ Except("decode")
            /\ UNCHANGED << img, src >>
    /\ UNCHANGED << run, dir, fs, i, success_count, total_size, request,
                    response, summary, exit, status, inflight, gets, calls,
                    fsAtCall, startEmpty >>

\* Lines 85-96.
NormalizeMode ==
    /\ pc = "normalize"
    /\ \/ /\ img' = Normalize(img)
          /\ pc' = "save"
          /\ UNCHANGED << ret, results >>
       \/ /\ i \in FlakyItems
          /\ Except("normalize")
          /\ UNCHANGED << img >>
    /\ UNCHANGED << run, dir, fs, i, success_count, total_size, request,
                    response, summary, exit, src, status, inflight, gets,
                    calls, fsAtCall, work, startEmpty >>

\* Lines 99-105: img.save encodes and writes the file.  A save that raises
\* leaves no file or an incomplete one, depending on the Pillow release and
\* on whether the file it created can be removed.
Save ==
    /\ pc = "save"
    /\ \/ \E sz \in EncodedSizes(i) :
            /\ fs' = [fs EXCEPT ![OutputPath(i)] = Encode(img, sz)]
            /\ work' = work \cup {"encode", "write"}
            /\ pc' = "report"
            /\ UNCHANGED << ret, results >>
       \/ /\ i \in FlakyItems
          /\ \E left \in {Absent, Partial} :
               fs' = [fs EXCEPT ![OutputPath(i)] = left]
          /\ work' = work \cup {"encode"}
          /\ Except("save")
    /\ UNCHANGED << run, dir, i, success_count, total_size, request,
                    response, img, summary, exit, src, status, inflight,
                    gets, calls, fsAtCall, startEmpty >>

\* Lines 107-112: the size and savings report, then return True.
Report ==
    /\ pc = "report"
    /\ \/ /\ ret' = TRUE
          /\ results' = [results EXCEPT ![i] = "ok"]
          /\ pc' = "returned"
       \/ /\ i \in FlakyItems
          /\ Except("report")
    /\ UNCHANGED << run, dir, fs, i, success_count, total_size, request,
                    response, img, summary, exit, src, status, inflight,
                    gets, calls, fsAtCall, work, startEmpty >>

\* Lines 133-137: main() counts the result of the call.
Tally ==
    /\ pc = "returned"
    /\ IF ret
       THEN /\ success_count' = CountSuccess(success_count)
            /\ total_size' = AddSize(total_size, fs[OutputPath(i)])
       ELSE UNCHANGED << success_count, total_size >>
    /\ pc' = "loop"
    /\ img' = None
    /\ src' = None
    /\ response' = NoResponse
    /\ UNCHANGED << run, dir, fs, i, request, ret, summary, exit, status,
                    inflight, gets, calls, results, fsAtCall, work,
                    startEmpty >>

\* Lines 139-154: the summary block; main() returns and the process exits 0.
Summary ==
    /\ pc = "summary"
    /\ summary' = [succeeded |-> success_count, total |-> Len(IMAGES),
                   size |-> total_size, msg |-> Closing(success_count).msg,
                   failed |-> Closing(success_count).failed]
    /\ exit' = 0
    /\ pc' = "done"
    /\ UNCHANGED << run, dir, fs, i, success_count, total_size, request,
                    response, img, ret, src, status, inflight, gets, calls,
                    results, fsAtCall, work, startEmpty >>

\* Lines 156-157: the script is run again.
StartRun ==
    /\ pc \in {"done", "crashed"}
    /\ run < MaxRuns
    /\ run' = run + 1
    /\ pc' = "start"
    /\ i' = 0
    /\ success_count' = 0
    /\ total_size' = 0
    /\ ret' = FALSE
    /\ summary' = NoSummary
    /\ exit' = -1
    /\ status' = "none"
    /\ gets' = [k \in Items |-> 0]
    /\ calls' = << >>
    /\ results' = [k \in Items |-> "none"]
    /\ fsAtCall' = fs
    /\ work' = {}
    /\ startEmpty' = (\A p \in Items : fs[p] = Absent)
    /\ UNCHANGED << dir, fs, request, response, img, src, inflight >>

Next ==
    \/ Makedirs
    \/ LoopNext
    \/ CheckExists
    \/ SendGet
    \/ Receive
    \/ Decode
    \/ NormalizeMode
    \/ Save
    \/ Report
    \/ Tally
    \/ Summary
    \/ StartRun

Spec == Init /\ [][Next]_vars

----------------------------------------------------------------------------
\* Properties

\* The file at item k's output path existed when the current call began.
ExistedAtCall == fsAtCall[i].kind # "absent"

ExistingPaths == { p \in Items : fs[p].kind # "absent" }

FetchFailed == { k \in Items : results[k] = "fetch" }

OnlyFetchFailures == \A k \in Items : results[k] \in {"ok", "fetch"}

Processed == { k \in Items : results[k] # "none" }

\* The items whose successful call main() has counted.
Tallied ==
    { k \in Items : /\ results[k] \in {"ok", "skipped"}
                    /\ (k < i \/ pc \in {"loop", "summary", "done"}) }

RECURSIVE SumSizes(_)
SumSizes(S) ==
    IF S = {} THEN 0
    ELSE LET p == CHOOSE q \in S : TRUE IN fs[p].size + SumSizes(S \ {p})

\* C1: a call for an item whose output file already exists issues no GET,
\* decodes, encodes and writes nothing, leaves the directory as it was and
\* returns True; and in every run a GET is issued only for an item whose
\* output file is absent at that moment.
SkipIssuesNoWork ==
    /\ [](pc = "returned" /\ ExistedAtCall =>
            /\ ret = TRUE
            /\ gets[i] = 0
            /\ work = {}
            /\ fs = fsAtCall)
    /\ [][\A k \in Items : gets'[k] > gets[k] => fs[k].kind = "absent"]_vars

SkipWitness ==
    /\ pc = "returned"
    /\ run = 2
    /\ i \notin FlakyItems
    /\ fsAtCall[i].kind = "webp"
    /\ ret = TRUE
    /\ gets[i] = 0

\* C2: when the GET of a call ends in a non-success status or a timeout, the
\* call returns False, no path of the directory has been created or changed,
\* the failure is not counted and main() moves on to the next item.
FetchFailureLeavesNoFile ==
    /\ [](pc = "returned" /\ status \notin {"none", "200"} =>
            /\ ret = FALSE
            /\ fs = fsAtCall)
    /\ [][pc = "returned" /\ status \notin {"none", "200"} =>
            pc' = "loop" /\ i' = i /\ success_count' = success_count]_vars
    /\ [][pc = "loop" /\ status \notin {"none", "200"} /\ i < Len(IMAGES) =>
            pc' = "check" /\ i' = i + 1]_vars

FetchFailureWitness ==
    /\ pc = "check"
    /\ i > 1
    /\ results[i - 1] = "fetch"
    /\ fs[i - 1].kind = "absent"

\* C3: whenever download_and_optimize returns True, the file at the item's
\* output path exists, is not empty and is a 3-channel RGB WebP.
SuccessMeansOpaqueArtifact ==
    pc = "returned" /\ ret = TRUE =>
        /\ fs[i].kind = "webp"
        /\ fs[i].size > 0
        /\ fs[i].mode = "RGB"

\* C4: a run that starts with an empty directory and in which only fetches
\* fail ends with a summary of (29 - |F|)/29 and with exactly one file for
\* every item outside F, F being the items whose fetch failed.
EmptyStartSummary ==
    pc = "done" /\ startEmpty /\ OnlyFetchFailures =>
        /\ summary.succeeded = 29 - Cardinality(FetchFailed)
        /\ summary.total = 29
        /\ ExistingPaths = Items \ FetchFailed
        /\ \A p \in ExistingPaths : fs[p].kind = "webp"

OneTimeoutWitness ==
    /\ pc = "done"
    /\ startEmpty
    /\ OnlyFetchFailures
    /\ Cardinality(FetchFailed) = 1
    /\ summary.succeeded = 28
    /\ Cardinality(ExistingPaths) = 28

\* C5: no error escapes main(): the process never ends with a traceback,
\* and when it ends every item has been attempted and the exit status is 0.
NothingIsFatal ==
    /\ pc # "crashed"
    /\ exit \in {-1, 0}
    /\ (pc = "done" => Processed = Items)

\* C6: in a run the items are handed to download_and_optimize one by one in
\* list order, each once; an item starts only when all earlier ones have
\* returned; each item is fetched at most once and at most one GET is in
\* flight; the summary is reached only after all 29 items.
StrictlySequential ==
    /\ calls = [j \in 1..i |-> j]
    /\ \A k \in Items : k < i => results[k] # "none"
    /\ \A k \in Items : k > i => results[k] = "none" /\ gets[k] = 0
    /\ \A k \in Items : gets[k] <= 1
    /\ inflight \in {0, 1}
    /\ (inflight = 1 => pc = "await" /\ request[1] = i)
    /\ (pc \in {"summary", "done"} => i = 29 /\ Processed = Items)

SequentialWitness ==
    /\ pc = "done"
    /\ Len(calls) = 29
    /\ \E k \in Items : results[k] = "fetch" /\ gets[k] = 1
    /\ \E k \in Items : results[k] = "ok" /\ gets[k] = 1

\* C7: the image handed to the encoder is in mode RGB, and a source pixel
\* that is fully transparent, in any mode with an alpha or palette channel,
\* is white in it.
TransparentBecomesWhite ==
    pc = "save" =>
        /\ img.mode = "RGB"
        /\ (src.mode \in AlphaModes /\ src.a = 0 => img.v = 255)

\* C8: success_count is the number of processed items whose call returned
\* True, total_size is the sum of the sizes of their output files, and the
\* closing message is SUCCESS exactly when success_count is 29, the warning
\* otherwise naming 29 - success_count failed items.
CountersMatchResults ==
    /\ success_count = Cardinality(Tallied)
    /\ total_size = SumSizes(Tallied)
    /\ 0 <= success_count
    /\ success_count <= Cardinality(Processed)
    /\ Cardinality(Processed) <= 29
    /\ (pc = "done" =>
          /\ summary.succeeded = success_count
          /\ summary.size = total_size
          /\ (summary.msg = "SUCCESS" <=> success_count = 29)
          /\ (summary.msg # "SUCCESS" =>
                summary.msg = "WARNING" /\ summary.failed = 29 - success_count))

CountersWitness ==
    /\ pc = "done"
    /\ summary.msg = "WARNING"
    /\ summary.failed = 1
    /\ total_size > success_count

\* C9: when download_and_optimize returns False for an item whose output
\* file was absent at the call, the file is still absent.
FailureLeavesNoFile ==
    pc = "returned" /\ ret = FALSE /\ ~ExistedAtCall => fs[i].kind = "absent"

\* C10: a file that exists is never changed or removed, and a step changes
\* at most the output path of the item being processed.
ExistingFilesUntouched ==
    [][\A p \in Items :
         /\ (fs[p].kind # "absent" => fs'[p] = fs[p])
         /\ (fs'[p] # fs[p] => pc = "save" /\ p = i)]_vars

UntouchedWitness ==
    /\ run = 2
    /\ pc = "report"
    /\ fsAtCall[i].kind = "absent"
    /\ fs[i].kind = "webp"
    /\ \A p \in Items \ {i} : fs[p].kind = "webp" /\ fs[p] = fsAtCall[p]

====
